---- MODULE Spec2Model ----
(***************************************************************************)
(* Model of hashpipe_status_keyvalues/__init__.py: the shared-memory       *)
(* status-buffer handle (attach / detach / scoped lock), the 80-byte       *)
(* record parser and the schema classifier.                                *)
(*                                                                         *)
(* Text is modelled as a sequence of one-character strings, a byte that    *)
(* is not valid UTF-8 as the token "0xFF".  A Python exception is the name *)
(* of its class, "" meaning that nothing was raised.                       *)
(***************************************************************************)
EXTENDS Integers, Sequences, FiniteSets, TLC

VARIABLES
    libhashpipe,    \* "None" | "CDLL": the module global set by load_shared_hashpipe_lib
    obj,            \* life of the handle object: "new" | "live" | "failed" | "deleted"
    attachRv,       \* return codes of hashpipe_status_attach, in call order
    detachRv,       \* return codes of hashpipe_status_detach, in call order
    timespec,       \* self.lock_timeout_timespec
    ctorArg,        \* the lock_timeout_s argument the constructor was called with
    fields,         \* the ctypes fields instance_id, shmid, lock, buf
    buf,            \* bytes of the shared status buffer
    sem,            \* the POSIX semaphore: "free" | "self" | "other"
    pc,             \* position inside parse_buffer: "idle" | "enter" | "loop" | "exit" | "classify"
    i,              \* the offset parse_buffer reads next
    keyvalues,      \* the dict parse_buffer fills, as a sequence of <<key, value>>
    pending,        \* exception travelling through __exit__
    prims,          \* primitives called and offsets read by the current parse_buffer call
    outcome,        \* how the last parse_buffer call ended: "" | "return" | exception
    result,         \* what the last parse_buffer call returned
    ncalls,         \* parse_buffer calls started on the handle
    decIn,          \* argument of a direct _decode_value call
    decOut,         \* its outcome
    prev,           \* outcome and result of the parse_buffer call before the current one
    semval,         \* several processes: value of the semaphore they share
    shbuf,          \* several processes: bytes of the status buffer they share
    rd,             \* several processes: the parse_buffer call of each reading process
    wr              \* several processes: the writing process

mpvars == <<semval, shbuf, rd, wr>>

vars == <<libhashpipe, obj, attachRv, detachRv, timespec, fields, ctorArg, buf, sem, pc, i,
          keyvalues, pending, prims, outcome, result, ncalls, decIn, decOut, prev, mpvars>>

---------------------------------------------------------------------------
(* Bounds of the model *)

\* records before the sentinel in a buffer
MaxRecs == 3
\* parse_buffer calls on one handle
MaxCalls == 2
\* characters of a value handed to _decode_value directly
MaxValLen == 3

---------------------------------------------------------------------------
(* Text *)

Digits == {"0", "1", "2", "3", "4", "5", "6", "7", "8", "9"}

DigitVal(c) ==
    CASE c = "0" -> 0 [] c = "1" -> 1 [] c = "2" -> 2 [] c = "3" -> 3 [] c = "4" -> 4
      [] c = "5" -> 5 [] c = "6" -> 6 [] c = "7" -> 7 [] c = "8" -> 8 [] c = "9" -> 9

\* str.strip(): whitespace dropped at both ends
RECURSIVE LStrip(_)
LStrip(s) == IF s # <<>> /\ s[1] = " " THEN LStrip(Tail(s)) ELSE s

RECURSIVE RStrip(_)
RStrip(s) == IF s # <<>> /\ s[Len(s)] = " " THEN RStrip(SubSeq(s, 1, Len(s) - 1)) ELSE s

Strip(s) == RStrip(LStrip(s))

\* a leading sign, as int() and float() accept it
Unsigned(t) == IF t # <<>> /\ t[1] \in {"+", "-"} THEN Tail(t) ELSE t

Negative(t) == t # <<>> /\ t[1] = "-"

RECURSIVE DigitsVal(_)
DigitsVal(ds) ==
    IF ds = <<>> THEN 0
    ELSE 10 * DigitsVal(SubSeq(ds, 1, Len(ds) - 1)) + DigitVal(ds[Len(ds)])

\* int(v) succeeds: optional whitespace, optional sign, one or more digits
IsIntText(v) ==
    LET u == Unsigned(Strip(v))
    IN  u # <<>> /\ \A j \in 1..Len(u) : u[j] \in Digits

IntOf(v) ==
    LET t == Strip(v)
    IN  IF Negative(t) THEN 0 - DigitsVal(Unsigned(t)) ELSE DigitsVal(Unsigned(t))

\* float(v) succeeds: optional whitespace, optional sign, digits with at most one point
IsFloatText(v) ==
    LET u == Unsigned(Strip(v))
    IN  /\ \E j \in 1..Len(u) : u[j] \in Digits
        /\ \A j \in 1..Len(u) : u[j] \in Digits \cup {"."}
        /\ Cardinality({j \in 1..Len(u) : u[j] = "."}) <= 1

RECURSIVE Normal(_, _)
Normal(m, d) == IF d > 0 /\ m % 10 = 0 THEN Normal(m \div 10, d - 1) ELSE <<m, d>>

---------------------------------------------------------------------------
(* Decoded values: an int n, a float n / 10^d, or a str s *)

IntValue(n) == [t |-> "int", n |-> n, d |-> 0, s |-> <<>>]

FloatValue(n, d) == [t |-> "float", n |-> n, d |-> d, s |-> <<>>]

StrValue(s) == [t |-> "str", n |-> 0, d |-> 0, s |-> s]

NoneValue == [t |-> "None", n |-> 0, d |-> 0, s |-> <<>>]

FloatOf(v) ==
    LET t  == Strip(v)
        u  == Unsigned(t)
        ds == SelectSeq(u, LAMBDA c : c \in Digits)
        p  == IF \E j \in 1..Len(u) : u[j] = "."
              THEN Len(u) - (CHOOSE j \in 1..Len(u) : u[j] = ".")
              ELSE 0
        nd == Normal(DigitsVal(ds), p)
    IN  FloatValue(IF Negative(t) THEN 0 - nd[1] ELSE nd[1], nd[2])

Returned(val) == [exc |-> "", val |-> val]

Raised(e) == [exc |-> e, val |-> NoneValue]

NotCalled == Raised("pending")

---------------------------------------------------------------------------
(* HashpipeStatusSharedMemoryIPC._decode_value *)

_decode_value(v) ==
    IF IsIntText(v) THEN Returned(IntValue(IntOf(v)))
    ELSE IF IsFloatText(v) THEN Returned(FloatOf(v))
    ELSE LET s == Strip(v)
         IN  IF s = <<>> THEN Raised("IndexError")
             ELSE IF s[1] = "'" /\ s[Len(s)] = "'"
                  THEN Returned(StrValue(Strip(SubSeq(s, 2, Len(s) - 1))))
                  ELSE Returned(StrValue(s))

---------------------------------------------------------------------------
(* Records *)

RecordLen == 80

Pad(s) == s \o [j \in 1..(RecordLen - Len(s)) |-> " "]

END_RECORD == Pad(<<"E", "N", "D">>)

\* bytes.decode() of a slice: every byte must be valid UTF-8
Decodable(record) == \A j \in 1..Len(record) : record[j] # "0xFF"

HasEq(record) == \E j \in 1..Len(record) : record[j] = "="

FirstEq(record) == CHOOSE j \in 1..Len(record) :
                       record[j] = "=" /\ \A h \in 1..(j - 1) : record[h] # "="

\* record.split("=", maxsplit=1)
SplitKey(record) == SubSeq(record, 1, FirstEq(record) - 1)

SplitValue(record) == SubSeq(record, FirstEq(record) + 1, Len(record))

\* self.buf[i:i+80]
Slice(b, off) == SubSeq(b, off + 1, off + RecordLen)

---------------------------------------------------------------------------
(* dict: insertion-ordered, a key assigned again keeps its place *)

DictHas(d, k) == \E j \in 1..Len(d) : d[j][1] = k

DictGet(d, k) == d[CHOOSE j \in 1..Len(d) : d[j][1] = k][2]

\* an assignment that keeps the value a key already has
DictSetKeepFirst(d, k, v) ==
    IF \E j \in 1..Len(d) : d[j][1] = k THEN d ELSE Append(d, <<k, v>>)

DictSet(d, k, v) ==
    IF DictHas(d, k)
    THEN [j \in 1..Len(d) |-> IF d[j][1] = k THEN <<k, v>> ELSE d[j]]
    ELSE Append(d, <<k, v>>)

---------------------------------------------------------------------------
(* Schema classifier *)

TELESCOP == <<"T", "E", "L", "E", "S", "C", "O", "P">>

\* GuppiRawProperties.telescope.fget: the value of the discriminator key, None when absent
telescope_fget(kv) == IF DictHas(kv, TELESCOP) THEN DictGet(kv, TELESCOP) ELSE NoneValue

\* PROPERTY_FGET_CLASS_MAP[telescope.fget]: cls.telescope.fget() -> cls
PROPERTY_FGET_CLASS_MAP ==
    { <<StrValue(<<"A", "T", "A">>), "HashpipeStatusBufferAta">>,
      <<StrValue(<<"C", "O", "S", "M", "I", "C">>), "HashpipeStatusBufferCosmic">>,
      <<StrValue(<<"M", "E", "E", "R", "K", "A", "T">>), "HashpipeStatusBufferMeerkat">> }

Registered(pv) == \E e \in PROPERTY_FGET_CLASS_MAP : e[1] = pv

ClassOf(pv) == (CHOOSE e \in PROPERTY_FGET_CLASS_MAP : e[1] = pv)[2]

NoResult == [cls |-> "", kv |-> <<>>]

\* the registered class built without the mapping's items
auto_init_without_items(kv, fgetRaises) ==
    IF fgetRaises THEN [exc |-> "Exception", ret |-> NoResult]
    ELSE IF Registered(telescope_fget(kv))
         THEN [exc |-> "", ret |-> [cls |-> ClassOf(telescope_fget(kv)), kv |-> <<>>]]
         ELSE [exc |-> "", ret |-> [cls |-> "dict", kv |-> kv]]

\* fgetRaises: the extractor raised instead of returning
auto_init_HashpipeStatusBuffer(kv, fgetRaises) ==
    IF fgetRaises THEN [exc |-> "Exception", ret |-> NoResult]
    ELSE LET property_value == telescope_fget(kv)
         IN  IF Registered(property_value)
             THEN [exc |-> "", ret |-> [cls |-> ClassOf(property_value), kv |-> kv]]
             ELSE [exc |-> "", ret |-> [cls |-> "dict", kv |-> kv]]

---------------------------------------------------------------------------
(* HashpipeStatusSharedMemoryIPC.__init__: the lock mode *)

DEFAULT_LOCK_TIMEOUT_S == 5

NanoPerSec == 1000000000

\* A lock_timeout_s argument: not supplied, None, or the number whole + frac / 1e9
Absent == [kind |-> "absent", whole |-> 0, frac |-> 0]

PyNone == [kind |-> "None", whole |-> 0, frac |-> 0]

Seconds(whole, frac) == [kind |-> "num", whole |-> whole, frac |-> frac]

\* the parameter's value: its default when the caller supplies none
lock_timeout_s(arg) == IF arg.kind = "absent" THEN Seconds(DEFAULT_LOCK_TIMEOUT_S, 0) ELSE arg

Positive(t) == t.whole > 0 \/ (t.whole = 0 /\ t.frac > 0)

NoTimeSpec == [isNone |-> TRUE, tv_sec |-> 0, tv_nsec |-> 0]

\* the test lock_timeout_s >= 0 in place of lock_timeout_s > 0
TimeSpecOfNonNegative(arg) ==
    LET t == lock_timeout_s(arg)
    IN  IF t.kind # "None" /\ t.whole >= 0
        THEN [isNone |-> FALSE, tv_sec |-> t.whole, tv_nsec |-> t.frac % NanoPerSec]
        ELSE NoTimeSpec

\* self.lock_timeout_timespec as __init__ leaves it
TimeSpecOf(arg) ==
    LET t == lock_timeout_s(arg)
    IN  IF t.kind # "None" /\ Positive(t)
        THEN [isNone |-> FALSE, tv_sec |-> t.whole, tv_nsec |-> t.frac % NanoPerSec]
        ELSE NoTimeSpec

---------------------------------------------------------------------------
(* Inputs *)

InstanceIds == {1}

Timeouts == {Absent, PyNone, Seconds(-1, 0), Seconds(0, 0), Seconds(0, 500000000)}

ReturnCodes == {0, -1}

RecordTexts ==
    { Pad(<<"T", "E", "L", "E", "S", "C", "O", "P", "=", "'", "A", "T", "A", "'">>),
      Pad(<<"T", "E", "L", "E", "S", "C", "O", "P", " ", "=", " ", "3", ".", "5">>),
      Pad(<<"S", "R", "C", "=", "a", "=", "b">>),
      Pad(<<"O", "B", "S", "=">>),
      Pad(<<"J", "U", "N", "K">>),
      Pad(<<"0xFF", "=", "1">>) }

RECURSIVE Flatten(_)
Flatten(rs) == IF rs = <<>> THEN <<>> ELSE Head(rs) \o Flatten(Tail(rs))

RecordSeqs == UNION {[1..n -> RecordTexts] : n \in 0..MaxRecs}

\* the records the producer wrote, closed by the sentinel
Buffers == {Flatten(rs) \o END_RECORD : rs \in RecordSeqs}

ValueChars == {"1", ".", "'", " ", "a", "-"}

ValueTexts == UNION {[1..n -> ValueChars] : n \in 0..MaxValLen}

\* no parse_buffer call came before
NoCall == [outcome |-> "", result |-> NoResult]

\* the specification has one process only
NoProcesses ==
    /\ semval = 1
    /\ shbuf = <<>>
    /\ rd = <<>>
    /\ wr = [pc |-> "idle", next |-> 0, version |-> 0, writes |-> 0]

NoFields == [instance_id |-> 0, shmid |-> 0, lock |-> 0, buf |-> 0]

\* what hashpipe_status_attach stores in the structure
AttachedFields(id) == [instance_id |-> id, shmid |-> 100 + id, lock |-> 1, buf |-> 1]

\* a primitive called with arguments a, b that returned rv
Call(op, a, b, rv) == [op |-> op, a |-> a, b |-> b, rv |-> rv]

---------------------------------------------------------------------------
(* The state machine *)

Init ==
    /\ libhashpipe = "None"
    /\ obj = "new"
    /\ attachRv = <<>>
    /\ detachRv = <<>>
    /\ timespec = NoTimeSpec
    /\ ctorArg = Absent
    /\ fields = NoFields
    /\ buf \in Buffers
    /\ sem = "free"
    /\ pc = "idle"
    /\ i = 0
    /\ keyvalues = <<>>
    /\ pending = ""
    /\ prims = <<>>
    /\ outcome = ""
    /\ result = NoResult
    /\ ncalls = 0
    /\ decIn = <<>>
    /\ decOut = NotCalled
    /\ prev = NoCall
    /\ NoProcesses

load_shared_hashpipe_lib ==
    /\ libhashpipe = "None"
    /\ libhashpipe' = "CDLL"
    /\ UNCHANGED <<obj, attachRv, detachRv, timespec, fields, ctorArg, buf, sem, pc, i, keyvalues,
                   pending, prims, outcome, result, ncalls, decIn, decOut, prev, mpvars>>

\* HashpipeStatusSharedMemoryIPC(instance_id[, lock_timeout_s])
__init__ ==
    /\ obj = "new"
    /\ \E id \in InstanceIds, arg \in Timeouts, rv \in ReturnCodes :
          /\ ctorArg' = arg
          /\ IF libhashpipe = "None"
             THEN /\ obj' = "failed"
                  /\ UNCHANGED <<attachRv, timespec, fields>>
             ELSE /\ attachRv' = Append(attachRv, rv)
                  /\ IF rv # 0
                     THEN /\ obj' = "failed"
                          /\ UNCHANGED <<timespec, fields>>
                     ELSE /\ obj' = "live"
                          /\ fields' = AttachedFields(id)
                          /\ timespec' = TimeSpecOf(arg)
    /\ UNCHANGED <<libhashpipe, detachRv, buf, sem, pc, i, keyvalues, pending, prims,
                   outcome, result, ncalls, decIn, decOut, prev, mpvars>>

\* the object is released
__del__ ==
    /\ obj \in {"live", "failed"}
    /\ pc = "idle"
    /\ obj' = "deleted"
    /\ IF libhashpipe = "None"
       THEN UNCHANGED detachRv
       ELSE \E rv \in ReturnCodes : detachRv' = Append(detachRv, rv)
    /\ UNCHANGED <<libhashpipe, attachRv, timespec, fields, ctorArg, buf, sem, pc, i, keyvalues,
                   pending, prims, outcome, result, ncalls, decIn, decOut, prev, mpvars>>

\* parse_buffer with the offset kept from the call before instead of i = 0
parse_buffer_keeps_offset ==
    /\ obj = "live"
    /\ pc = "idle"
    /\ ncalls < MaxCalls
    /\ ncalls' = ncalls + 1
    /\ keyvalues' = <<>>
    /\ prims' = <<>>
    /\ outcome' = ""
    /\ result' = NoResult
    /\ pending' = ""
    /\ pc' = "enter"
    /\ prev' = [outcome |-> outcome, result |-> result]
    /\ UNCHANGED <<libhashpipe, obj, attachRv, detachRv, timespec, fields, ctorArg, buf, sem, i,
                   decIn, decOut, mpvars>>

\* parse_buffer is called: keyvalues = {}
parse_buffer ==
    /\ obj = "live"
    /\ pc = "idle"
    /\ ncalls < MaxCalls
    /\ ncalls' = ncalls + 1
    /\ keyvalues' = <<>>
    /\ prims' = <<>>
    /\ outcome' = ""
    /\ result' = NoResult
    /\ pending' = ""
    /\ i' = 0
    /\ pc' = "enter"
    /\ prev' = [outcome |-> outcome, result |-> result]
    /\ UNCHANGED <<libhashpipe, obj, attachRv, detachRv, timespec, fields, ctorArg, buf, sem,
                   decIn, decOut, mpvars>>

\* __enter__ that forgets the timeout of the handle when the timed lock fails
enter_timeout_drops_timespec ==
    /\ pc = "enter"
    /\ IF timespec.isNone
       THEN /\ sem = "free"
            /\ sem' = "self"
            /\ prims' = Append(prims, Call("lock", 0, 0, 0))
            /\ pc' = "loop"
            /\ UNCHANGED <<outcome, timespec>>
       ELSE IF sem = "free"
            THEN /\ sem' = "self"
                 /\ prims' = Append(prims, Call("lock_timeout", timespec.tv_sec, timespec.tv_nsec, 0))
                 /\ pc' = "loop"
                 /\ UNCHANGED <<outcome, timespec>>
            ELSE /\ prims' = Append(prims, Call("lock_timeout", timespec.tv_sec, timespec.tv_nsec, -1))
                 /\ outcome' = "RuntimeWarning"
                 /\ pc' = "idle"
                 /\ timespec' = NoTimeSpec
                 /\ UNCHANGED sem
    /\ UNCHANGED <<libhashpipe, obj, attachRv, detachRv, fields, ctorArg, buf, i,
                   keyvalues, pending, result, ncalls, decIn, decOut, prev, mpvars>>

\* __enter__ without the test of the timed lock's return code
enter_ignores_rv ==
    /\ pc = "enter"
    /\ IF timespec.isNone
       THEN /\ sem = "free"
            /\ sem' = "self"
            /\ prims' = Append(prims, Call("lock", 0, 0, 0))
       ELSE IF sem = "free"
            THEN /\ sem' = "self"
                 /\ prims' = Append(prims, Call("lock_timeout", timespec.tv_sec, timespec.tv_nsec, 0))
            ELSE /\ prims' = Append(prims, Call("lock_timeout", timespec.tv_sec, timespec.tv_nsec, -1))
                 /\ UNCHANGED sem
    /\ pc' = "loop"
    /\ UNCHANGED <<libhashpipe, obj, attachRv, detachRv, timespec, fields, ctorArg, buf, i,
                   keyvalues, pending, outcome, result, ncalls, decIn, decOut, prev, mpvars>>

\* with self: the lock primitive returns
__enter__ ==
    /\ pc = "enter"
    /\ IF timespec.isNone
       THEN /\ sem = "free"
            /\ sem' = "self"
            /\ prims' = Append(prims, Call("lock", 0, 0, 0))
            /\ pc' = "loop"
            /\ UNCHANGED outcome
       ELSE IF sem = "free"
            THEN /\ sem' = "self"
                 /\ prims' = Append(prims, Call("lock_timeout", timespec.tv_sec, timespec.tv_nsec, 0))
                 /\ pc' = "loop"
                 /\ UNCHANGED outcome
            ELSE /\ prims' = Append(prims, Call("lock_timeout", timespec.tv_sec, timespec.tv_nsec, -1))
                 /\ outcome' = "RuntimeWarning"
                 /\ pc' = "idle"
                 /\ UNCHANGED sem
    /\ UNCHANGED <<libhashpipe, obj, attachRv, detachRv, timespec, fields, ctorArg, buf, i,
                   keyvalues, pending, result, ncalls, decIn, decOut, prev, mpvars>>

\* the loop with the undecodable record's error raised past __exit__
loop_raises_past_exit ==
    /\ pc = "loop"
    /\ i + RecordLen <= Len(buf)
    /\ prims' = Append(prims, Call("read", i, RecordLen, 0))
    /\ LET record == Slice(buf, i)
       IN  IF ~Decodable(record)
           THEN /\ outcome' = "RuntimeError"
                /\ pc' = "idle"
                /\ UNCHANGED <<i, keyvalues, pending>>
           ELSE IF record = END_RECORD
           THEN /\ pc' = "exit"
                /\ UNCHANGED <<i, keyvalues, pending, outcome>>
           ELSE IF ~HasEq(record)
           THEN /\ pending' = "ValueError"
                /\ pc' = "exit"
                /\ UNCHANGED <<i, keyvalues, outcome>>
           ELSE LET dv == _decode_value(SplitValue(record))
                IN  IF dv.exc # ""
                    THEN /\ pending' = dv.exc
                         /\ pc' = "exit"
                         /\ UNCHANGED <<i, keyvalues, outcome>>
                    ELSE /\ keyvalues' = DictSet(keyvalues, Strip(SplitKey(record)), dv.val)
                         /\ i' = i + RecordLen
                         /\ UNCHANGED <<pc, pending, outcome>>
    /\ UNCHANGED <<libhashpipe, obj, attachRv, detachRv, timespec, fields, ctorArg, buf, sem,
                   result, ncalls, decIn, decOut, prev, mpvars>>

\* the loop with a record that has no "=" passed over instead of unpacked
loop_skips_record_without_eq ==
    /\ pc = "loop"
    /\ i + RecordLen <= Len(buf)
    /\ prims' = Append(prims, Call("read", i, RecordLen, 0))
    /\ LET record == Slice(buf, i)
       IN  IF ~Decodable(record)
           THEN /\ pending' = "RuntimeError"
                /\ pc' = "exit"
                /\ UNCHANGED <<i, keyvalues>>
           ELSE IF record = END_RECORD
           THEN /\ pc' = "exit"
                /\ UNCHANGED <<i, keyvalues, pending>>
           ELSE IF ~HasEq(record)
           THEN /\ i' = i + RecordLen
                /\ UNCHANGED <<pc, pending, keyvalues>>
           ELSE LET dv == _decode_value(SplitValue(record))
                IN  IF dv.exc # ""
                    THEN /\ pending' = dv.exc
                         /\ pc' = "exit"
                         /\ UNCHANGED <<i, keyvalues>>
                    ELSE /\ keyvalues' = DictSet(keyvalues, Strip(SplitKey(record)), dv.val)
                         /\ i' = i + RecordLen
                         /\ UNCHANGED <<pc, pending>>
    /\ UNCHANGED <<libhashpipe, obj, attachRv, detachRv, timespec, fields, ctorArg, buf, sem,
                   outcome, result, ncalls, decIn, decOut, prev, mpvars>>

\* one turn of the while loop
loop ==
    /\ pc = "loop"
    /\ i + RecordLen <= Len(buf)
    /\ prims' = Append(prims, Call("read", i, RecordLen, 0))
    /\ LET record == Slice(buf, i)
       IN  IF ~Decodable(record)
           THEN /\ pending' = "RuntimeError"
                /\ pc' = "exit"
                /\ UNCHANGED <<i, keyvalues>>
           ELSE IF record = END_RECORD
           THEN /\ pc' = "exit"
                /\ UNCHANGED <<i, keyvalues, pending>>
           ELSE IF ~HasEq(record)
           THEN /\ pending' = "ValueError"
                /\ pc' = "exit"
                /\ UNCHANGED <<i, keyvalues>>
           ELSE LET dv == _decode_value(SplitValue(record))
                IN  IF dv.exc # ""
                    THEN /\ pending' = dv.exc
                         /\ pc' = "exit"
                         /\ UNCHANGED <<i, keyvalues>>
                    ELSE /\ keyvalues' = DictSet(keyvalues, Strip(SplitKey(record)), dv.val)
                         /\ i' = i + RecordLen
                         /\ UNCHANGED <<pc, pending>>
    /\ UNCHANGED <<libhashpipe, obj, attachRv, detachRv, timespec, fields, ctorArg, buf, sem,
                   outcome, result, ncalls, decIn, decOut, prev, mpvars>>

\* __exit__ that unlocks only when the body ended without an exception
exit_unlocks_on_success_only ==
    /\ pc = "exit"
    /\ IF pending # ""
       THEN /\ outcome' = pending
            /\ pc' = "idle"
            /\ UNCHANGED <<prims, sem>>
       ELSE /\ prims' = Append(prims, Call("unlock", 0, 0, 0))
            /\ sem' = "free"
            /\ pc' = "classify"
            /\ UNCHANGED outcome
    /\ UNCHANGED <<libhashpipe, obj, attachRv, detachRv, timespec, fields, ctorArg, buf, i,
                   keyvalues, pending, result, ncalls, decIn, decOut, prev, mpvars>>

\* the with block is left, by break or by an exception
__exit__ ==
    /\ pc = "exit"
    /\ prims' = Append(prims, Call("unlock", 0, 0, 0))
    /\ sem' = "free"
    /\ IF pending # ""
       THEN /\ outcome' = pending
            /\ pc' = "idle"
       ELSE /\ pc' = "classify"
            /\ UNCHANGED outcome
    /\ UNCHANGED <<libhashpipe, obj, attachRv, detachRv, timespec, fields, ctorArg, buf, i,
                   keyvalues, pending, result, ncalls, decIn, decOut, prev, mpvars>>

\* return auto_init_HashpipeStatusBuffer(keyvalues)
classify ==
    /\ pc = "classify"
    /\ \E fgetRaises \in BOOLEAN :
          LET r == auto_init_HashpipeStatusBuffer(keyvalues, fgetRaises)
          IN  /\ outcome' = (IF r.exc # "" THEN r.exc ELSE "return")
              /\ result' = r.ret
    /\ pc' = "idle"
    /\ UNCHANGED <<libhashpipe, obj, attachRv, detachRv, timespec, fields, ctorArg, buf, sem, i,
                   keyvalues, pending, prims, ncalls, decIn, decOut, prev, mpvars>>

\* another process of the pipeline takes the semaphore
other_lock ==
    /\ sem = "free"
    /\ sem' = "other"
    /\ UNCHANGED <<libhashpipe, obj, attachRv, detachRv, timespec, fields, ctorArg, buf, pc, i,
                   keyvalues, pending, prims, outcome, result, ncalls, decIn, decOut, prev, mpvars>>

\* and gives it back
other_unlock ==
    /\ sem = "other"
    /\ sem' = "free"
    /\ UNCHANGED <<libhashpipe, obj, attachRv, detachRv, timespec, fields, ctorArg, buf, pc, i,
                   keyvalues, pending, prims, outcome, result, ncalls, decIn, decOut, prev, mpvars>>

Next ==
    \/ load_shared_hashpipe_lib
    \/ __init__
    \/ __del__
    \/ parse_buffer
    \/ __enter__
    \/ loop
    \/ __exit__
    \/ classify
    \/ other_lock
    \/ other_unlock

Spec == Init /\ [][Next]_vars

---------------------------------------------------------------------------
(* _decode_value on its own: the argument ranges over the texts of ValueTexts *)

InitDecode ==
    /\ libhashpipe = "None"
    /\ obj = "new"
    /\ attachRv = <<>>
    /\ detachRv = <<>>
    /\ timespec = NoTimeSpec
    /\ ctorArg = Absent
    /\ fields = NoFields
    /\ buf = END_RECORD
    /\ sem = "free"
    /\ pc = "idle"
    /\ i = 0
    /\ keyvalues = <<>>
    /\ pending = ""
    /\ prims = <<>>
    /\ outcome = ""
    /\ result = NoResult
    /\ ncalls = 0
    /\ decIn \in ValueTexts
    /\ decOut = NotCalled
    /\ prev = NoCall
    /\ NoProcesses

decode_call ==
    /\ decOut = NotCalled
    /\ decOut' = _decode_value(decIn)
    /\ UNCHANGED <<libhashpipe, obj, attachRv, detachRv, timespec, fields, ctorArg, buf, sem,
                   pc, i, keyvalues, pending, prims, outcome, result, ncalls, decIn, prev, mpvars>>

NextDecode == decode_call

SpecDecode == InitDecode /\ [][NextDecode]_vars

---------------------------------------------------------------------------
(* auto_init_HashpipeStatusBuffer on its own: the argument ranges over Mappings *)

\* keys of a mapping handed to the classifier
MaxKeys == 2

MappingKeys == {TELESCOP, <<"P", "U", "L", "S", "E">>, <<"S", "R", "C">>}

MappingValues ==
    { StrValue(<<"A", "T", "A">>), StrValue(<<"C", "O", "S", "M", "I", "C">>),
      StrValue(<<"M", "E", "E", "R", "K", "A", "T">>), StrValue(<<"a", "t", "a">>),
      IntValue(1), FloatValue(35, 1) }

Mappings ==
    { d \in UNION {[1..n -> MappingKeys \X MappingValues] : n \in 0..MaxKeys} :
        \A j, h \in 1..Len(d) : j # h => d[j][1] # d[h][1] }

InitClassify ==
    /\ libhashpipe = "None"
    /\ obj = "new"
    /\ attachRv = <<>>
    /\ detachRv = <<>>
    /\ timespec = NoTimeSpec
    /\ ctorArg = Absent
    /\ fields = NoFields
    /\ buf = END_RECORD
    /\ sem = "free"
    /\ pc = "classify"
    /\ i = 0
    /\ keyvalues \in Mappings
    /\ pending = ""
    /\ prims = <<>>
    /\ outcome = ""
    /\ result = NoResult
    /\ ncalls = 0
    /\ decIn = <<>>
    /\ decOut = NotCalled
    /\ prev = NoCall
    /\ NoProcesses

NextClassify == classify

SpecClassify == InitClassify /\ [][NextClassify]_vars

---------------------------------------------------------------------------
(* Several processes on the status buffer of one instance: readers that call
   parse_buffer, each on a handle of its own, and a writer; all of them lock
   the one semaphore of the instance *)

\* the reading processes
NumProcs == 2

\* how often the writer rewrites the buffer
MaxWrites == 1

Procs == 1..NumProcs

\* the two contents the writer alternates between, record by record
Versions ==
    << << Pad(<<"T", "E", "L", "E", "S", "C", "O", "P", "=", "'", "A", "T", "A", "'">>),
          Pad(<<"S", "R", "C", "=", "a", "=", "b">>) >>,
       << Pad(<<"T", "E", "L", "E", "S", "C", "O", "P", " ", "=", " ", "3", ".", "5">>),
          Pad(<<"S", "R", "C", "=", "1">>) >> >>

VersionBuffer(v) == Flatten(Versions[v]) \o END_RECORD

\* b with the 80 bytes at record index n replaced by rec
WriteRecord(b, n, rec) ==
    SubSeq(b, 1, (n - 1) * RecordLen) \o rec \o SubSeq(b, n * RecordLen + 1, Len(b))

\* a reader before its first call; timed tells whether its handle has a timespec
IdleReader(timed) ==
    [pc |-> "idle", timed |-> timed, i |-> 0, keyvalues |-> <<>>, pending |-> "",
     reads |-> 0, outcome |-> "", result |-> NoResult, calls |-> 0]

InitMulti ==
    /\ libhashpipe = "loaded"
    /\ obj = "new"
    /\ attachRv = <<>>
    /\ detachRv = <<>>
    /\ timespec = NoTimeSpec
    /\ ctorArg = Absent
    /\ fields = NoFields
    /\ buf = END_RECORD
    /\ sem = "free"
    /\ pc = "idle"
    /\ i = 0
    /\ keyvalues = <<>>
    /\ pending = ""
    /\ prims = <<>>
    /\ outcome = ""
    /\ result = NoResult
    /\ ncalls = 0
    /\ decIn = <<>>
    /\ decOut = NotCalled
    /\ prev = NoCall
    /\ semval = 1
    /\ shbuf = VersionBuffer(1)
    /\ \E timed \in [Procs -> BOOLEAN] : rd = [p \in Procs |-> IdleReader(timed[p])]
    /\ wr = [pc |-> "idle", next |-> 0, version |-> 1, writes |-> 0]

spvars == <<libhashpipe, obj, attachRv, detachRv, timespec, fields, ctorArg, buf, sem, pc, i,
            keyvalues, pending, prims, outcome, result, ncalls, decIn, decOut, prev>>

\* process p calls parse_buffer
mp_parse_buffer(p) ==
    /\ rd[p].pc = "idle"
    /\ rd[p].calls < MaxCalls
    /\ rd' = [rd EXCEPT ![p] = [IdleReader(rd[p].timed) EXCEPT !.pc = "enter",
                                                               !.calls = rd[p].calls + 1]]
    /\ UNCHANGED <<spvars, semval, shbuf, wr>>

\* __enter__ of p without the test of the timed lock's return code
mp_enter_ignores_rv(p) ==
    /\ rd[p].pc = "enter"
    /\ IF ~rd[p].timed
       THEN /\ semval > 0
            /\ semval' = semval - 1
       ELSE IF semval > 0
            THEN semval' = semval - 1
            ELSE UNCHANGED semval
    /\ rd' = [rd EXCEPT ![p].pc = "loop"]
    /\ UNCHANGED <<spvars, shbuf, wr>>

\* with self, in process p: the lock primitive returns
mp_enter(p) ==
    /\ rd[p].pc = "enter"
    /\ IF ~rd[p].timed
       THEN /\ semval > 0
            /\ semval' = semval - 1
            /\ rd' = [rd EXCEPT ![p].pc = "loop"]
       ELSE IF semval > 0
            THEN /\ semval' = semval - 1
                 /\ rd' = [rd EXCEPT ![p].pc = "loop"]
            ELSE /\ rd' = [rd EXCEPT ![p].pc = "idle", ![p].outcome = "RuntimeWarning"]
                 /\ UNCHANGED semval
    /\ UNCHANGED <<spvars, shbuf, wr>>

\* one turn of the while loop of process p
mp_loop(p) ==
    /\ rd[p].pc = "loop"
    /\ rd[p].i + RecordLen <= Len(shbuf)
    /\ LET record == Slice(shbuf, rd[p].i)
           r == [rd[p] EXCEPT !.reads = rd[p].reads + 1]
       IN  IF ~Decodable(record)
           THEN rd' = [rd EXCEPT ![p] = [r EXCEPT !.pending = "RuntimeError", !.pc = "exit"]]
           ELSE IF record = END_RECORD
           THEN rd' = [rd EXCEPT ![p] = [r EXCEPT !.pc = "exit"]]
           ELSE IF ~HasEq(record)
           THEN rd' = [rd EXCEPT ![p] = [r EXCEPT !.pending = "ValueError", !.pc = "exit"]]
           ELSE LET dv == _decode_value(SplitValue(record))
                IN  IF dv.exc # ""
                    THEN rd' = [rd EXCEPT ![p] = [r EXCEPT !.pending = dv.exc, !.pc = "exit"]]
                    ELSE rd' = [rd EXCEPT ![p] =
                                  [r EXCEPT !.keyvalues = DictSet(r.keyvalues,
                                                                  Strip(SplitKey(record)), dv.val),
                                            !.i = r.i + RecordLen]]
    /\ UNCHANGED <<spvars, semval, shbuf, wr>>

\* process p leaves the with block
mp_exit(p) ==
    /\ rd[p].pc = "exit"
    /\ semval' = semval + 1
    /\ IF rd[p].pending # ""
       THEN rd' = [rd EXCEPT ![p].outcome = rd[p].pending, ![p].pc = "idle"]
       ELSE rd' = [rd EXCEPT ![p].pc = "classify"]
    /\ UNCHANGED <<spvars, shbuf, wr>>

\* process p returns auto_init_HashpipeStatusBuffer(keyvalues)
mp_classify(p) ==
    /\ rd[p].pc = "classify"
    /\ \E fgetRaises \in BOOLEAN :
          LET r == auto_init_HashpipeStatusBuffer(rd[p].keyvalues, fgetRaises)
          IN  rd' = [rd EXCEPT ![p].outcome = (IF r.exc # "" THEN r.exc ELSE "return"),
                               ![p].result = r.ret,
                               ![p].pc = "idle"]
    /\ UNCHANGED <<spvars, semval, shbuf, wr>>

\* the writer takes the semaphore to write the other content
wr_lock ==
    /\ wr.pc = "idle"
    /\ wr.writes < MaxWrites
    /\ semval > 0
    /\ semval' = semval - 1
    /\ wr' = [wr EXCEPT !.pc = "writing", !.next = 1, !.version = 3 - wr.version]
    /\ UNCHANGED <<spvars, shbuf, rd>>

\* the writer writes one record
wr_write ==
    /\ wr.pc = "writing"
    /\ wr.next <= Len(Versions[wr.version])
    /\ shbuf' = WriteRecord(shbuf, wr.next, Versions[wr.version][wr.next])
    /\ wr' = [wr EXCEPT !.next = wr.next + 1]
    /\ UNCHANGED <<spvars, semval, rd>>

\* the writer has written all records and gives the semaphore back
wr_unlock ==
    /\ wr.pc = "writing"
    /\ wr.next > Len(Versions[wr.version])
    /\ semval' = semval + 1
    /\ wr' = [wr EXCEPT !.pc = "idle", !.writes = wr.writes + 1]
    /\ UNCHANGED <<spvars, shbuf, rd>>

NextMulti ==
    \/ \E p \in Procs : mp_parse_buffer(p)
    \/ \E p \in Procs : mp_enter(p)
    \/ \E p \in Procs : mp_loop(p)
    \/ \E p \in Procs : mp_exit(p)
    \/ \E p \in Procs : mp_classify(p)
    \/ wr_lock
    \/ wr_write
    \/ wr_unlock

SpecMulti == InitMulti /\ [][NextMulti]_vars

---------------------------------------------------------------------------
(* parse_buffer on an attached handle whose data area holds ScanLen records,
   with the sentinel at any record, at several or at none: buf is the part of
   the memory behind the data pointer that the model follows the loop through *)

ScanLen == 3

ScanRecords ==
    { Pad(<<"T", "E", "L", "E", "S", "C", "O", "P", "=", "'", "A", "T", "A", "'">>),
      Pad(<<"S", "R", "C", "=", "a", "=", "b">>),
      Pad(<<"O", "B", "S", "=">>),
      END_RECORD }

ScanBuffers == {Flatten(rs) : rs \in [1..ScanLen -> ScanRecords]}

InitScan ==
    /\ libhashpipe = "loaded"
    /\ obj = "live"
    /\ attachRv = <<0>>
    /\ detachRv = <<>>
    /\ ctorArg \in {Absent, PyNone}
    /\ timespec = TimeSpecOf(ctorArg)
    /\ \E id \in InstanceIds : fields = AttachedFields(id)
    /\ buf \in ScanBuffers
    /\ sem = "free"
    /\ pc = "idle"
    /\ i = 0
    /\ keyvalues = <<>>
    /\ pending = ""
    /\ prims = <<>>
    /\ outcome = ""
    /\ result = NoResult
    /\ ncalls = 0
    /\ decIn = <<>>
    /\ decOut = NotCalled
    /\ prev = NoCall
    /\ NoProcesses

NextScan ==
    \/ parse_buffer
    \/ __enter__
    \/ loop
    \/ __exit__
    \/ classify
    \/ other_lock
    \/ other_unlock

SpecScan == InitScan /\ [][NextScan]_vars

---------------------------------------------------------------------------
(* Properties *)

Ops(p) == [j \in 1..Len(p) |-> p[j].op]

\* the current or last parse_buffer call has left its with block
LeftLock == prims # <<>> /\ prims[Len(prims)].op = "unlock"

\* C1: on a handle without a lock timeout, a parse_buffer call never calls the
\* timed lock; it calls the blocking lock once, before the first read, and unlock
\* once, after the last read, whether the body broke out of the loop or raised.
C1_BlockingLockPairedWithUnlock ==
    timespec.isNone =>
        /\ \A j \in 1..Len(prims) : prims[j].op # "lock_timeout"
        /\ pc = "enter" => prims = <<>>
        /\ pc = "loop" =>
              /\ Len(prims) >= 1
              /\ prims[1].op = "lock"
              /\ \A j \in 2..Len(prims) : prims[j].op = "read"
        /\ pc = "exit" =>
              /\ Len(prims) >= 2
              /\ prims[1].op = "lock"
              /\ \A j \in 2..Len(prims) : prims[j].op = "read"
        /\ (pc = "classify" \/ (pc = "idle" /\ ncalls > 0)) =>
              /\ Len(prims) >= 3
              /\ prims[1].op = "lock"
              /\ prims[Len(prims)].op = "unlock"
              /\ \A j \in 2..(Len(prims) - 1) : prims[j].op = "read"

\* a call on a handle without timeout whose body raised has unlocked
C1_Witness ==
    /\ timespec.isNone
    /\ pc = "idle"
    /\ outcome = "ValueError"
    /\ Ops(prims) = <<"lock", "read", "read", "unlock">>

\* C2: when the timed lock returns non-zero, that call is the only primitive of
\* the parse_buffer call: nothing is read, unlock is not called, no other lock is
\* tried, the call ends with the lock-timeout error and returns no mapping.
C2_TimedLockFailureRaises ==
    \A j \in 1..Len(prims) :
        (prims[j].op = "lock_timeout" /\ prims[j].rv # 0) =>
            /\ Len(prims) = 1
            /\ outcome = "RuntimeWarning"
            /\ pc = "idle"
            /\ result = NoResult
            /\ keyvalues = <<>>
            /\ sem # "self"

C2_Witness ==
    /\ outcome = "RuntimeWarning"
    /\ Len(prims) = 1
    /\ prims[1].op = "lock_timeout"
    /\ prims[1].rv # 0
    /\ sem = "other"

---------------------------------------------------------------------------
(* The records of a buffer *)

RecordAt(b, n) == Slice(b, (n - 1) * RecordLen)

\* the first slice that equals the sentinel
SentinelAt(b) ==
    CHOOSE n \in 1..(Len(b) \div RecordLen) :
        /\ RecordAt(b, n) = END_RECORD
        /\ \A m \in 1..(n - 1) : RecordAt(b, m) # END_RECORD

\* number of records before the sentinel
K(b) == SentinelAt(b) - 1

KeyOf(record) == Strip(SplitKey(record))

BadRecord(record) == ~Decodable(record) \/ ~HasEq(record)

HasBad(b) == \E n \in 1..K(b) : BadRecord(RecordAt(b, n))

FirstBad(b) ==
    CHOOSE n \in 1..K(b) :
        /\ BadRecord(RecordAt(b, n))
        /\ \A m \in 1..(n - 1) : ~BadRecord(RecordAt(b, m))

LastWithKey(b, k) ==
    CHOOSE n \in 1..K(b) :
        /\ KeyOf(RecordAt(b, n)) = k
        /\ \A m \in (n + 1)..K(b) : KeyOf(RecordAt(b, m)) # k

\* the decoded value as the specification words it: int, else float, else the
\* trimmed text, one enclosing pair of single quotes removed and trimmed again
DescribedValue(v) ==
    IF IsIntText(v) THEN IntValue(IntOf(v))
    ELSE IF IsFloatText(v) THEN FloatOf(v)
    ELSE LET s == Strip(v)
         IN  IF s # <<>> /\ s[1] = "'" /\ s[Len(s)] = "'"
             THEN StrValue(Strip(SubSeq(s, 2, Len(s) - 1)))
             ELSE StrValue(s)

\* the mapping the specification promises for a buffer of well-formed records:
\* the trimmed keys in order of first appearance, each with its last value
ExpectedMapping(b) ==
    LET firsts == SelectSeq([n \in 1..K(b) |-> n],
                            LAMBDA n : \A m \in 1..(n - 1) :
                                KeyOf(RecordAt(b, m)) # KeyOf(RecordAt(b, n)))
    IN  [j \in 1..Len(firsts) |->
            LET k == KeyOf(RecordAt(b, firsts[j]))
            IN  <<k, DescribedValue(SplitValue(RecordAt(b, LastWithKey(b, k))))>>]

\* C3: for a buffer of k >= 0 records that each decode and hold a "=", closed by
\* the sentinel, the loop ends without an exception and leaves the mapping of the
\* trimmed keys, in order of first appearance, to the decoded values.
C3_WellFormedBufferParses ==
    ((\A n \in 1..K(buf) : ~BadRecord(RecordAt(buf, n))) /\ LeftLock) =>
        /\ pending = ""
        /\ keyvalues = ExpectedMapping(buf)

C5_DecodeTotal == decOut # NotCalled => decOut = Returned(DescribedValue(decIn))

\* C10: after a parse of all records, every key of the buffer has exactly one
\* entry, holding the decoded value of the last record with that key, and there
\* is no other entry.
C10_LastDuplicateWins ==
    (LeftLock /\ pending = "") =>
        /\ \A n \in 1..K(buf) :
              LET k == KeyOf(RecordAt(buf, n))
              IN  /\ Cardinality({j \in 1..Len(keyvalues) : keyvalues[j][1] = k}) = 1
                  /\ DictGet(keyvalues, k) =
                         _decode_value(SplitValue(RecordAt(buf, LastWithKey(buf, k)))).val
        /\ Len(keyvalues) = Cardinality({KeyOf(RecordAt(buf, n)) : n \in 1..K(buf)})

\* a parse of two records with one key and a record with another key
C10_Witness ==
    /\ LeftLock
    /\ pending = ""
    /\ K(buf) = 3
    /\ Len(keyvalues) = 2
    /\ KeyOf(RecordAt(buf, 1)) = KeyOf(RecordAt(buf, 3))
    /\ SplitValue(RecordAt(buf, 1)) # SplitValue(RecordAt(buf, 3))


\* the lock acquisitions of the current parse_buffer call
LockCalls == SelectSeq(prims, LAMBDA c : c.op \in {"lock", "lock_timeout"})

\* C6 as stated: a timeout that is not supplied, is None or is <= 0 gives a
\* handle without timeout, whose lock acquisitions are blocking; a timeout > 0
\* gives timed lock acquisitions of that duration.
C6_AbsentTimeoutBlocks ==
    obj = "live" =>
        IF ctorArg.kind \in {"absent", "None"} \/ ~Positive(ctorArg)
        THEN /\ timespec.isNone
             /\ \A j \in 1..Len(LockCalls) : LockCalls[j].op = "lock"
        ELSE /\ ~timespec.isNone
             /\ \A j \in 1..Len(LockCalls) :
                   LockCalls[j] \in {Call("lock_timeout", ctorArg.whole, ctorArg.frac, rv) :
                                       rv \in ReturnCodes}

\* C6 amended: a timeout that is None or is <= 0 gives a handle without timeout,
\* whose lock acquisitions are all blocking; a timeout > 0, or the default of 5 s
\* when the caller supplies none, gives timed lock acquisitions of that
\* duration, whole seconds and nanoseconds.
C6_LockModeFixedAtAttach ==
    obj = "live" =>
        IF ctorArg.kind = "None" \/ (ctorArg.kind = "num" /\ ~Positive(ctorArg))
        THEN /\ timespec.isNone
             /\ \A j \in 1..Len(LockCalls) : LockCalls[j].op = "lock"
        ELSE LET sec  == IF ctorArg.kind = "absent" THEN 5 ELSE ctorArg.whole
                 nsec == IF ctorArg.kind = "absent" THEN 0 ELSE ctorArg.frac
             IN  /\ ~timespec.isNone
                 /\ \A j \in 1..Len(LockCalls) :
                       LockCalls[j] \in {Call("lock_timeout", sec, nsec, rv) :
                                           rv \in ReturnCodes}

\* a handle built without a timeout argument has taken the lock with the timed
\* primitive and 5 s
C6_Witness ==
    /\ obj = "live"
    /\ ctorArg = Absent
    /\ LockCalls = <<Call("lock_timeout", 5, 0, 0)>>
    /\ pc = "loop"

\* C7: detach is called once over the life of a handle whose attach returned 0,
\* and never for a handle that was not attached.
C7_DetachOncePerAttach ==
    LET attached == attachRv # <<>> /\ attachRv[1] = 0
    IN  /\ Len(detachRv) <= 1
        /\ ~attached => detachRv = <<>>
        /\ (attached /\ obj = "deleted") => Len(detachRv) = 1

\* C8: the classifier returns an instance of the class registered for the
\* discriminator value, with the items of the mapping, and the mapping itself
\* when the discriminator is missing or not registered.
C8_ClassifyByDiscriminator ==
    outcome = "return" =>
        LET pv == IF \E j \in 1..Len(keyvalues) : keyvalues[j][1] = TELESCOP
                  THEN keyvalues[CHOOSE j \in 1..Len(keyvalues) : keyvalues[j][1] = TELESCOP][2]
                  ELSE NoneValue
        IN  /\ result.kv = keyvalues
            /\ result.cls =
                  (CASE pv = StrValue(<<"A", "T", "A">>) -> "HashpipeStatusBufferAta"
                     [] pv = StrValue(<<"C", "O", "S", "M", "I", "C">>) -> "HashpipeStatusBufferCosmic"
                     [] pv = StrValue(<<"M", "E", "E", "R", "K", "A", "T">>) -> "HashpipeStatusBufferMeerkat"
                     [] OTHER -> "dict")

\* a mapping of two keys classified as the Cosmic class
C8_Witness ==
    /\ outcome = "return"
    /\ result.cls = "HashpipeStatusBufferCosmic"
    /\ Len(result.kv) = 2
    /\ result.kv = keyvalues

\* C9: a parse_buffer call whose records all parsed returns a result.
C9_ClassificationNeverFails ==
    (LeftLock /\ pending = "" /\ pc = "idle") => (outcome = "return" /\ result.kv = keyvalues)


\* positions of the successful lock acquisitions and of the unlocks in a call's log
LockedAt == {j \in 1..Len(prims) : prims[j].op \in {"lock", "lock_timeout"} /\ prims[j].rv = 0}

UnlockedAt == {j \in 1..Len(prims) : prims[j].op = "unlock"}

\* C11: in both lock modes every read of the buffer comes after the call's one
\* successful lock acquisition and before its unlock, with the semaphore held;
\* unlock is called only after a successful lock and at most once; a call that
\* took the lock and has ended, by return or by any exception, has unlocked
\* exactly once; the classifier runs after the unlock.
C11_ReadsBetweenLockAndUnlock ==
    /\ Cardinality(LockedAt) <= 1
    /\ Cardinality(UnlockedAt) <= Cardinality(LockedAt)
    /\ \A u \in UnlockedAt : \E l \in LockedAt : l < u
    /\ \A j \in 1..Len(prims) :
          prims[j].op = "read" =>
              /\ \E l \in LockedAt : l < j
              /\ \A u \in UnlockedAt : j < u
    /\ pc \in {"loop", "exit"} => (sem = "self" /\ LockedAt # {} /\ UnlockedAt = {})
    /\ (pc \in {"classify", "idle"} /\ LockedAt # {}) =>
          (Cardinality(UnlockedAt) = 1 /\ sem # "self")
    /\ (pc = "classify" \/ outcome \in {"return", "Exception"}) => UnlockedAt # {}
    /\ outcome \in {"RuntimeError", "ValueError", "IndexError"} => UnlockedAt # {}

\* a timed-lock call that ended with the error of a value's decoding
C11_Witness ==
    /\ ~timespec.isNone
    /\ pc = "idle"
    /\ outcome = "IndexError"
    /\ Ops(prims) = <<"lock_timeout", "read", "unlock">>
    /\ sem = "free"

\* process p is between its lock and its unlock
InSection(p) == rd[p].pc \in {"loop", "exit"}

\* the processes, the writer included, that are in their locked section
Holders == {p \in Procs : InSection(p)} \cup (IF wr.pc = "writing" THEN {0} ELSE {})

\* the mappings the spec describes for the contents the writer alternates between
VersionMappings == {ExpectedMapping(VersionBuffer(v)) : v \in 1..Len(Versions)}

\* C12: with several readers and a writer on one semaphore, at most one
\* process is in its locked section at a time; the mapping of every parse
\* that returned is the mapping of one of the contents the writer wrote, never
\* a mix of two; and a process whose timed lock failed has read nothing and
\* is outside the section with the semaphore untouched by it.
C12_MutualExclusion ==
    /\ Cardinality(Holders) <= 1
    /\ semval = 1 - Cardinality(Holders)
    /\ \A p \in Procs :
          /\ rd[p].outcome = "return" =>
                rd[p].result.kv \in VersionMappings
          /\ rd[p].outcome = "RuntimeWarning" =>
                (rd[p].timed /\ rd[p].pc = "idle" /\ rd[p].reads = 0 /\ rd[p].keyvalues = <<>>)
          /\ rd[p].reads > 0 => (InSection(p) \/ rd[p].outcome # "" \/ rd[p].pc = "classify")

\* two readers returned different contents, and a third outcome is a timed
\* lock that failed while the writer was writing
C12_Witness ==
    /\ rd[1].outcome = "return"
    /\ rd[1].result.kv = ExpectedMapping(VersionBuffer(2))
    /\ rd[2].outcome = "RuntimeWarning"
    /\ rd[2].calls = 2
    /\ wr.writes = 1

\* the offsets of the slices read by the current or last call, in order
ReadsAt == LET r == SelectSeq(prims, LAMBDA c : c.op = "read") IN [j \in 1..Len(r) |-> r[j].a]

\* the record indexes (from 0) of buf that hold the sentinel
Sentinels == {n \in 0..(Len(buf) \div RecordLen - 1) : Slice(buf, n * RecordLen) = END_RECORD}

FirstSentinel == CHOOSE n \in Sentinels : \A m \in Sentinels : n <= m

\* the records of buf before record index n are text with an "="
WellFormedBefore(n) ==
    \A m \in 0..(n - 1) : Decodable(Slice(buf, m * RecordLen)) /\ HasEq(Slice(buf, m * RecordLen))

\* C13: the slices are read at offsets 0, 80, 160, ... one after the other;
\* with the first sentinel at offset 80*k after k well-formed records no
\* slice at or beyond 80*(k+1) is read and the call that got the lock ends
\* with exactly k+1 slices read; on well-formed records without a sentinel
\* the call that got the lock stays in the loop with the lock held.
C13_ScanStopsAtFirstSentinel ==
    /\ \A j \in 1..Len(ReadsAt) : ReadsAt[j] = RecordLen * (j - 1)
    /\ (Sentinels # {} /\ WellFormedBefore(FirstSentinel)) =>
          /\ \A j \in 1..Len(ReadsAt) : ReadsAt[j] < RecordLen * (FirstSentinel + 1)
          /\ LeftLock => Len(ReadsAt) = FirstSentinel + 1
    /\ (Sentinels = {} /\ WellFormedBefore(Len(buf) \div RecordLen) /\ LockedAt # {}) =>
          (pc = "loop" /\ sem = "self" /\ ~LeftLock)

\* the call before the current one failed with a lock timeout
AfterTimeout == prev.outcome = "RuntimeWarning"

\* the state of a handle that is attached and was built with a lock timeout
AttachedWithTimeout ==
    /\ obj = "live"
    /\ attachRv = <<0>>
    /\ detachRv = <<>>
    /\ \E id \in InstanceIds : fields = AttachedFields(id)
    /\ ~timespec.isNone
    /\ timespec = TimeSpecOf(ctorArg)

\* the step in which a parse_buffer call fails with a lock timeout
TimesOut == outcome # "RuntimeWarning" /\ outcome' = "RuntimeWarning"

\* C14: the step in which parse_buffer fails with a lock timeout leaves the
\* handle attached, detach uncalled, and its instance id, segment id, lock
\* reference, data pointer and timeout as they were; a later call on that
\* handle first calls the timed lock with the same timeout, and if that
\* succeeds the call reads records and unlocks exactly once.
C14_TimeoutLeavesHandleUsable ==
    /\ [][TimesOut => (AttachedWithTimeout /\ AttachedWithTimeout'
                       /\ UNCHANGED <<obj, attachRv, detachRv, fields, timespec, ctorArg>>)]_vars
    /\ [](AfterTimeout /\ pc # "idle" => AttachedWithTimeout)
    /\ [](AfterTimeout /\ prims # <<>> =>
            /\ prims[1].op = "lock_timeout"
            /\ prims[1].a = TimeSpecOf(ctorArg).tv_sec
            /\ prims[1].b = TimeSpecOf(ctorArg).tv_nsec
            /\ Cardinality(LockedAt \cup {j \in 1..Len(prims) : prims[j].op = "lock_timeout"}) = 1)
    /\ [](AfterTimeout /\ LockedAt # {} /\ pc \in {"classify", "idle"} =>
            /\ \E j \in 1..Len(prims) : prims[j].op = "read"
            /\ Cardinality(UnlockedAt) = 1)

\* a call timed out and the next call on the handle returned a mapping
C14_Witness ==
    /\ AfterTimeout
    /\ outcome = "return"
    /\ Ops(prims) = <<"lock_timeout", "read", "read", "unlock">>
    /\ obj = "live"

\* a step of a parse_buffer call, from its entry to its return or exception
InCall == pc # "idle" \/ pc' # "idle"

\* C15: no step of a parse_buffer call, successful or failing, changes a byte
\* of the buffer or a field of the handle (instance id, segment id, lock
\* reference, data pointer, lock mode); and when two successive calls on a
\* handle both return, with the buffer unchanged between them, they return
\* the same keys with the same values in the same order.
C15_ReadOnlyRepeatable ==
    /\ [][InCall => UNCHANGED <<buf, fields, timespec, ctorArg, obj, attachRv, detachRv>>]_vars
    /\ []((prev.outcome = "return" /\ outcome = "return") => result = prev.result)
    /\ [](pc = "enter" => (i = 0 /\ keyvalues = <<>> /\ pending = ""))

\* two successive calls returned a mapping of two keys
C15_Witness ==
    /\ ncalls = 2
    /\ prev.outcome = "return"
    /\ outcome = "return"
    /\ Len(result.kv) = 2
    /\ Ops(prims) = <<"lock", "read", "read", "read", "unlock">>

====
